---- MODULE Spec2Model ----
(***************************************************************************)
(* ToxBlock (src/src/index.ts): the single-text pipeline checkText, the    *)
(* batch orchestrator checkTexts, the prompt builder, the timeout race and *)
(* the response normalizer parseResponse.                                  *)
(*                                                                         *)
(* Representation.  A JavaScript string is a sequence of tokens (short     *)
(* TLA+ strings): a word, a punctuation mark, a whitespace character, a    *)
(* JSON literal.  A JavaScript value is a record [type, s]: type is the    *)
(* typeof-like tag and s the token sequence of a string, the one-token     *)
(* spelling of a number or boolean, and <<>> otherwise.  A confidence is   *)
(* an integer number of tenths (One is 1.0).                               *)
(***************************************************************************)
EXTENDS Integers, Sequences, FiniteSets, TLC

\* ------------------------------------------------------------------ bounds

\* The longest array handed to checkTexts.
MaxBatch == 2

\* The number of checkText invocations of a behaviour, over all the public
\* operations (checkText calls, checkTexts items) it issues one after another.
MaxInvocations == 3

\* ------------------------------------------------------- JavaScript values

Undefined == [type |-> "undefined", s |-> <<>>]

Null == [type |-> "null", s |-> <<>>]

Str(toks) == [type |-> "string", s |-> toks]

Num(tok) == [type |-> "number", s |-> <<tok>>]

Bool(tok) == [type |-> "boolean", s |-> <<tok>>]

EmptyArray == [type |-> "array", s |-> <<>>]

EmptyObject == [type |-> "object", s |-> <<>>]

\* The number tokens of the model and their values in tenths.  "1e999" is
\* read by JSON.parse as Infinity and "-1e999" as -Infinity; both are given a
\* magnitude far outside [0, 1].
NumberTokens == {"0", "0.5", "0.8", "0.9", "1", "1.5", "-0.5", "1e999", "-1e999", "42"}

NumVal(tok) ==
  CASE tok = "0" -> 0
    [] tok = "0.5" -> 5
    [] tok = "0.8" -> 8
    [] tok = "0.9" -> 9
    [] tok = "1" -> 10
    [] tok = "1.5" -> 15
    [] tok = "-0.5" -> -5
    [] tok = "1e999" -> 1000000
    [] tok = "-1e999" -> -1000000
    [] tok = "42" -> 420

\* ToBoolean: false for undefined, null, false, 0 and the empty string; true
\* for every other value (any non-empty string, any object or array).
Truthy(x) ==
  CASE x.type = "undefined" -> FALSE
    [] x.type = "null" -> FALSE
    [] x.type = "boolean" -> x.s = <<"true">>
    [] x.type = "number" -> NumVal(x.s[1]) # 0
    [] x.type = "string" -> x.s # <<>>
    [] OTHER -> TRUE

\* ----------------------------------------------------------------- strings

\* The whitespace tokens String.prototype.trim removes.
Whitespace == {" ", "\n", "\t"}

RECURSIVE TrimStart(_)
TrimStart(s) ==
  IF s # <<>> /\ Head(s) \in Whitespace THEN TrimStart(Tail(s)) ELSE s

RECURSIVE TrimEnd(_)
TrimEnd(s) ==
  IF s # <<>> /\ s[Len(s)] \in Whitespace
  THEN TrimEnd(SubSeq(s, 1, Len(s) - 1))
  ELSE s

Trim(s) == TrimEnd(TrimStart(s))

\* The position of the first occurrence of token tok in s, 0 when there is
\* none (String.prototype.indexOf, plus one).
IndexOf(s, tok) ==
  IF \E i \in 1..Len(s) : s[i] = tok
  THEN CHOOSE i \in 1..Len(s) : s[i] = tok /\ \A j \in 1..(i - 1) : s[j] # tok
  ELSE 0

\* ---------------------------------------------------------- prompt builder

\* The substitution marker of a prompt template, one token.
Marker == "{TEXT}"

\* The grave accent character, one token.
Backtick == "<backtick>"

\* GetSubstitution of String.prototype.replace for a string pattern (no
\* capture groups): in the replacement string "$$" stands for "$", "$&" for
\* the matched text, "$" and a grave accent for the text before the match and
\* "$'" for the text after it; any other "$" is literal.

RECURSIVE GetSubstitution(_, _, _, _)
GetSubstitution(repl, matched, before, after) ==
  IF repl = <<>> THEN <<>>
  ELSE IF Head(repl) = "$" /\ Len(repl) >= 2 /\ repl[2] \in {"$", "&", Backtick, "'"}
  THEN (CASE repl[2] = "$" -> <<"$">>
          [] repl[2] = "&" -> matched
          [] repl[2] = Backtick -> before
          [] repl[2] = "'" -> after)
       \o GetSubstitution(SubSeq(repl, 3, Len(repl)), matched, before, after)
  ELSE <<Head(repl)>> \o GetSubstitution(Tail(repl), matched, before, after)

\* customPrompt.replace('{TEXT}', text): the first occurrence of the marker is
\* replaced by the substitution of text; a template without it is unchanged.
ReplaceMarker(template, text) ==
  LET p == IndexOf(template, Marker) IN
  IF p = 0 THEN template
  ELSE LET before == SubSeq(template, 1, p - 1)
           after == SubSeq(template, p + 1, Len(template))
       IN before \o GetSubstitution(text, <<Marker>>, before, after) \o after

\* ------------------------------------------------------ response normalizer

\* 1.0 in tenths: the upper clamp of a confidence.
One == 10

\* 0.5 in tenths: the confidence of a reply that carries no numeric one.
Half == 5

\* String literal tokens of a reply (with their quotes) and their contents.
StringLiterals ==
  {"\"isProfane\"", "\"confidence\"", "\"language\"", "\"details\"",
   "\"en\"", "\"\"", "\"false\"", "\"high\"", "\"clean\"", "\"true\""}

Unquote(tok) ==
  CASE tok = "\"isProfane\"" -> <<"isProfane">>
    [] tok = "\"confidence\"" -> <<"confidence">>
    [] tok = "\"language\"" -> <<"language">>
    [] tok = "\"details\"" -> <<"details">>
    [] tok = "\"en\"" -> <<"en">>
    [] tok = "\"\"" -> <<>>
    [] tok = "\"false\"" -> <<"false">>
    [] tok = "\"high\"" -> <<"high">>
    [] tok = "\"clean\"" -> <<"clean">>
    [] tok = "\"true\"" -> <<"true">>

\* The Markdown code fence (three grave accents), one token.
Fence == "<fence>"

\* responseText.replace(/<fence>json/g, ''): every fence token directly
\* followed by the word json is removed together with it.
RECURSIVE RemoveJsonFences(_)
RemoveJsonFences(s) ==
  IF s = <<>> THEN <<>>
  ELSE IF Len(s) >= 2 /\ s[1] = Fence /\ s[2] = "json"
  THEN RemoveJsonFences(SubSeq(s, 3, Len(s)))
  ELSE <<Head(s)>> \o RemoveJsonFences(Tail(s))

\* .replace(/<fence>/g, ''): every remaining fence token is removed.
RECURSIVE RemoveFences(_)
RemoveFences(s) ==
  IF s = <<>> THEN <<>>
  ELSE IF Head(s) = Fence THEN RemoveFences(Tail(s))
  ELSE <<Head(s)>> \o RemoveFences(Tail(s))

\* Variant: only the fences that open a json block are removed.
CleanResponseJsonFencesOnly(responseText) == Trim(RemoveJsonFences(responseText))

\* Lines 285-288.
CleanResponse(responseText) == Trim(RemoveFences(RemoveJsonFences(responseText)))

\* The properties parseResponse reads from the parsed value.
NoFields ==
  [isProfane |-> Undefined, confidence |-> Undefined,
   language |-> Undefined, details |-> Undefined]

ParseFailure == [ok |-> FALSE, val |-> Undefined, obj |-> NoFields]

IsScalarToken(tok) ==
  tok \in {"null", "true", "false"} \cup NumberTokens \cup StringLiterals

ScalarValue(tok) ==
  CASE tok = "null" -> Null
    [] tok \in {"true", "false"} -> Bool(tok)
    [] tok \in NumberTokens -> Num(tok)
    [] tok \in StringLiterals -> Str(Unquote(tok))

\* The length of the JSON value at the head of t (a scalar, [] or {}), 0 when
\* no value starts there.
ValueLen(t) ==
  IF t = <<>> THEN 0
  ELSE IF IsScalarToken(t[1]) THEN 1
  ELSE IF Len(t) >= 2 /\ t[1] = "[" /\ t[2] = "]" THEN 2
  ELSE IF Len(t) >= 2 /\ t[1] = "{" /\ t[2] = "}" THEN 2
  ELSE 0

ValueAt(t) ==
  IF IsScalarToken(t[1]) THEN ScalarValue(t[1])
  ELSE IF t[1] = "[" THEN EmptyArray
  ELSE EmptyObject

SetField(obj, key, v) ==
  IF key = <<>> \/ key[1] \notin DOMAIN obj THEN obj
  ELSE [obj EXCEPT ![key[1]] = v]

\* The members of an object, after its "{": key ":" value, then "}" or ","
\* and more members.  A later member of the same key replaces an earlier one.
RECURSIVE ParseMembers(_, _)
ParseMembers(t, obj) ==
  IF Len(t) < 4 \/ t[1] \notin StringLiterals \/ t[2] # ":" THEN ParseFailure
  ELSE LET rest == SubSeq(t, 3, Len(t))
           n == ValueLen(rest)
       IN IF n = 0 \/ Len(rest) < n + 1 THEN ParseFailure
          ELSE LET obj2 == SetField(obj, Unquote(t[1]), ValueAt(rest))
                   tl == SubSeq(rest, n + 1, Len(rest))
               IN IF tl = <<"}">>
                  THEN [ok |-> TRUE, val |-> EmptyObject, obj |-> obj2]
                  ELSE IF tl[1] = "," THEN ParseMembers(Tail(tl), obj2)
                  ELSE ParseFailure

\* The elements of an array, after its "[": value, then "]" or "," and more.
RECURSIVE ParseElements(_)
ParseElements(t) ==
  LET n == ValueLen(t) IN
  IF n = 0 \/ Len(t) < n + 1 THEN FALSE
  ELSE LET tl == SubSeq(t, n + 1, Len(t)) IN
       IF tl = <<"]">> THEN TRUE
       ELSE IF tl[1] = "," THEN ParseElements(Tail(tl))
       ELSE FALSE

\* Whitespace between the tokens of a JSON text is insignificant.
DropWhitespace(s) == SelectSeq(s, LAMBDA tok : tok \notin Whitespace)

\* JSON.parse: ok is FALSE where it throws SyntaxError.
JSONParse(text) ==
  LET t == DropWhitespace(text) IN
  IF t = <<>> THEN ParseFailure
  ELSE IF ValueLen(t) = Len(t)
  THEN [ok |-> TRUE, val |-> ValueAt(t), obj |-> NoFields]
  ELSE IF t[1] = "{" THEN ParseMembers(Tail(t), NoFields)
  ELSE IF t[1] = "[" /\ ParseElements(Tail(t))
  THEN [ok |-> TRUE, val |-> EmptyArray, obj |-> NoFields]
  ELSE ParseFailure

\* Math.max(0, Math.min(1, c)) in tenths.
Min(a, b) == IF a <= b THEN a ELSE b

Max(a, b) == IF a >= b THEN a ELSE b

\* Variant: the upper clamp left out.
ClampConfidenceNoUpper(c) == Max(0, c)

ClampConfidence(c) == Max(0, Min(One, c))

\* toLowerCase on the tokens of the model that carry capitals.
Lower(tok) ==
  CASE tok = "TRUE" -> "true"
    [] tok = "Toxic" -> "toxic"
    [] tok = "\"isProfane\"" -> "\"isprofane\""
    [] OTHER -> tok

\* The keywords of the fallback path that occur inside a lower-case token.
KeywordsIn(tok) ==
  CASE tok \in {"true", "\"true\""} -> {"true"}
    [] tok \in {"profane", "\"isprofane\""} -> {"profane"}
    [] tok \in {"toxic", "non-toxic"} -> {"toxic"}
    [] tok = "inappropriate" -> {"inappropriate"}
    [] OTHER -> {}

\* lowerResponse.includes(keyword).
Includes(s, keyword) == \E i \in 1..Len(s) : keyword \in KeywordsIn(s[i])

ToLowerCase(s) == [i \in 1..Len(s) |-> Lower(s[i])]

\* Variant: the keywords looked up in the reply as it is, without toLowerCase.
FallbackResultCaseSensitive(responseText) ==
  [isProfane |-> Includes(responseText, "true")
                 \/ Includes(responseText, "profane")
                 \/ Includes(responseText, "toxic")
                 \/ Includes(responseText, "inappropriate"),
   confidence |-> Half,
   language |-> Str(<<"unknown">>),
   details |-> Str(<<"Fallback parsing used">>)]

\* The catch branch of parseResponse.
FallbackResult(responseText) ==
  LET lowerResponse == ToLowerCase(responseText) IN
  [isProfane |-> Includes(lowerResponse, "true")
                 \/ Includes(lowerResponse, "profane")
                 \/ Includes(lowerResponse, "toxic")
                 \/ Includes(lowerResponse, "inappropriate"),
   confidence |-> Half,
   language |-> Str(<<"unknown">>),
   details |-> Str(<<"Fallback parsing used">>)]

\* Variant: isProfane taken only from the boolean true.
StructuredResultStrict(parsed) ==
  [isProfane |-> parsed.obj.isProfane = Bool("true"),
   confidence |-> IF parsed.obj.confidence.type = "number"
                  THEN ClampConfidence(NumVal(parsed.obj.confidence.s[1]))
                  ELSE Half,
   language |-> IF Truthy(parsed.obj.language)
                THEN parsed.obj.language
                ELSE Str(<<"unknown">>),
   details |-> parsed.obj.details]

\* The try branch of parseResponse, for a parsed value whose properties can
\* be read.
StructuredResult(parsed) ==
  [isProfane |-> Truthy(parsed.obj.isProfane),
   confidence |-> IF parsed.obj.confidence.type = "number"
                  THEN ClampConfidence(NumVal(parsed.obj.confidence.s[1]))
                  ELSE Half,
   language |-> IF Truthy(parsed.obj.language)
                THEN parsed.obj.language
                ELSE Str(<<"unknown">>),
   details |-> parsed.obj.details]

\* Variant: a parsed null read like an object without fields.
parseResponseNullAsObject(responseText) ==
  LET parsed == JSONParse(CleanResponse(responseText)) IN
  IF parsed.ok
  THEN StructuredResult(parsed)
  ELSE FallbackResult(responseText)

\* parseResponse.  JSON.parse throwing, and reading a property of a parsed
\* null (a TypeError), both land in the catch branch.
parseResponse(responseText) ==
  LET parsed == JSONParse(CleanResponse(responseText)) IN
  IF parsed.ok /\ parsed.val.type # "null"
  THEN StructuredResult(parsed)
  ELSE FallbackResult(responseText)

\* ------------------------------------------------------------------ errors

\* A thrown or rejected value: an Error instance (kind is its class), or a
\* value that is no Error, with message its String() form.
Thrown(kind, message) == [kind |-> kind, message |-> message]

NoCause == Thrown("none", "")

\* new ToxBlockError(message, code, originalError).
ToxBlockError(message, code, originalError) ==
  [name |-> "ToxBlockError", code |-> code, message |-> message,
   originalError |-> originalError]

NoError == [name |-> "none", code |-> "", message |-> "", originalError |-> NoCause]

NoResult ==
  [isProfane |-> FALSE, confidence |-> -1, language |-> Undefined, details |-> Undefined]

\* How an async call settled: fulfilled with value, or rejected with error.
Fulfilled(result) == [status |-> "fulfilled", value |-> result, error |-> NoError]

Rejected(err) == [status |-> "rejected", value |-> NoResult, error |-> err]

NoOutcome == [status |-> "pending", value |-> NoResult, error |-> NoError]

\* ------------------------------------------------------------ configuration

DefaultModel == <<"gemini-2.0-flash-001">>

DefaultTimeout == 10000

DEFAULT_PROMPT ==
  <<"Analyze the following text", "\n", "Text to analyze:", " ",
    "\"", Marker, "\"", "\n", "Response:">>

\* The timeouts a configuration gives, as number tokens, and their values in
\* milliseconds.
TimeoutTokens == {"0", "-1", "5000"}

Millis(tok) ==
  CASE tok = "0" -> 0
    [] tok = "-1" -> -1
    [] tok = "5000" -> 5000

\* config.timeout || 10000 (line 175): the given number unless it is falsy,
\* that is unless it is undefined or 0.
EffectiveTimeout(timeout) ==
  IF timeout.type = "number" /\ Millis(timeout.s[1]) # 0
  THEN Millis(timeout.s[1])
  ELSE DefaultTimeout

\* Variant: the typeof test of line 165 left out.
InvalidApiKeyFalsyOnly(apiKey) == ~Truthy(apiKey)

\* Line 165: !config.apiKey || typeof config.apiKey !== 'string'.
InvalidApiKey(apiKey) == ~Truthy(apiKey) \/ apiKey.type # "string"

\* Lines 166-169.
InvalidConfigError ==
  ToxBlockError("API key is required and must be a string", "INVALID_CONFIG", NoCause)

\* Lines 172-175, for a configuration whose apiKey passed line 165: model,
\* customPrompt and timeout fall back to the defaults when falsy.
Construct(raw) ==
  [model |-> IF Truthy(raw.model) THEN raw.model.s ELSE DefaultModel,
   customPrompt |-> IF Truthy(raw.customPrompt) THEN raw.customPrompt.s
                    ELSE DEFAULT_PROMPT,
   timeout |-> EffectiveTimeout(raw.timeout)]

\* The fields of an instance before its constructor has run.
NoConfig == [model |-> <<>>, customPrompt |-> <<>>, timeout |-> 0]

\* Variant: getConfig returning the default timeout.
GetConfigDefaults(c) == [model |-> c.model, timeout |-> DefaultTimeout]

\* getConfig (lines 325-330).
GetConfig(c) == [model |-> c.model, timeout |-> c.timeout]

\* What a caller holds before it has called getConfig.
NoConfigRead == [model |-> <<>>, timeout |-> 0]

ApiKey == Str(<<"test-api-key">>)

\* The configurations handed to the constructor: with a valid apiKey, the
\* templates and the timeouts (unset, zero, negative, positive) of the model;
\* and the default configuration with an apiKey that is absent, empty or no
\* string.
RawConfigs ==
  {[apiKey |-> ApiKey, model |-> Undefined, customPrompt |-> Undefined,
    timeout |-> Undefined],
   [apiKey |-> ApiKey, model |-> Undefined,
    customPrompt |-> Str(<<Marker, " ", "or", " ", Marker>>), timeout |-> Num("0")],
   [apiKey |-> ApiKey, model |-> Undefined,
    customPrompt |-> Str(<<"Is this toxic?">>), timeout |-> Num("-1")],
   [apiKey |-> ApiKey, model |-> Str(<<"custom-model">>),
    customPrompt |-> Str(<<"Custom analysis:", " ", Marker>>),
    timeout |-> Num("5000")]}
  \cup {[apiKey |-> k, model |-> Undefined, customPrompt |-> Undefined,
          timeout |-> Undefined] :
          k \in {Undefined, Null, Str(<<>>), Num("42")}}

\* ---------------------------------------------------------------- checkText

\* Variant: the typeof test left out.
InvalidTextFalsyOnly(text) == ~Truthy(text)

\* Line 194: !text || typeof text !== 'string'.
InvalidText(text) == ~Truthy(text) \/ text.type # "string"

\* Variant: the trim left out.
BlankTextUntrimmed(text) == text.s = <<>>

\* Line 201: text.trim().length === 0.
BlankText(text) == Trim(text.s) = <<>>

EmptyTextResult ==
  [isProfane |-> FALSE, confidence |-> One,
   language |-> Str(<<"unknown">>), details |-> Str(<<"Empty text">>)]

InvalidInputError == ToxBlockError("Text must be a non-empty string", "INVALID_INPUT", NoCause)

\* Line 238: error instanceof Error ? error : new Error(String(error)).
AsError(thrown) ==
  IF thrown.kind = "value" THEN Thrown("Error", thrown.message) ELSE thrown

\* Variant: the caught error's own message becomes the primary message.
AnalysisFailedLeaking(thrown) ==
  ToxBlockError(thrown.message, "ANALYSIS_FAILED", AsError(thrown))

\* The catch block of checkText.
AnalysisFailed(thrown) ==
  ToxBlockError("Failed to analyze text", "ANALYSIS_FAILED", AsError(thrown))

TimeoutError == Thrown("Error", "Request timeout")

EmptyResponseError == Thrown("Error", "Empty response from AI model")

\* What the provider's promise fulfils with: a response object whose text is
\* a string or undefined, or no object at all.
Response(text) == [kind |-> "response", text |-> text]

NoResponse == [kind |-> "undefined", text |-> Undefined]

\* How the race of line 219 settled.
RaceFulfilled(reply) == [kind |-> "fulfilled", reply |-> reply, reason |-> NoCause]

RaceRejected(reason) == [kind |-> "rejected", reply |-> NoResponse, reason |-> reason]

NotRaced == [kind |-> "none", reply |-> NoResponse, reason |-> NoCause]

\* Line 227: result.text || ''.
ResponseText(reply) == IF Truthy(reply.text) THEN reply.text.s ELSE <<>>

\* Variant: the test for an empty response left out.
AfterRaceWithoutEmptyCheck(settled) ==
  IF settled.kind = "rejected" THEN Rejected(AnalysisFailed(settled.reason))
  ELSE IF settled.reply.kind = "undefined"
  THEN Rejected(AnalysisFailed(Thrown("TypeError", "Cannot read properties of undefined")))
  ELSE Fulfilled(parseResponse(ResponseText(settled.reply)))

\* Lines 227-240: checkText after the await of the race.
AfterRace(settled) ==
  IF settled.kind = "rejected" THEN Rejected(AnalysisFailed(settled.reason))
  ELSE IF settled.reply.kind = "undefined"
  THEN Rejected(AnalysisFailed(Thrown("TypeError", "Cannot read properties of undefined")))
  ELSE IF ResponseText(settled.reply) = <<>>
  THEN Rejected(AnalysisFailed(EmptyResponseError))
  ELSE Fulfilled(parseResponse(ResponseText(settled.reply)))

\* --------------------------------------------------------------- checkTexts

\* Lines 265-269: the entry pushed for an item whose checkText rejected.
DegradedResult(err) ==
  [isProfane |-> FALSE, confidence |-> 0, language |-> Undefined,
   details |-> Str(<<"Error: ", err.message>>)]

\* Lines 261-270: the entry pushed for an item, from how its checkText settled.
BatchEntry(outcome) ==
  IF outcome.status = "fulfilled" THEN outcome.value
  ELSE DegradedResult(outcome.error)

\* Variant: the entry is put at the front (unshift).
PushFront(rs, entry) == <<entry>> \o rs

\* results.push(entry).
Push(rs, entry) == Append(rs, entry)

\* Variant: a string taken for an array.
IsArrayOrString(arg) == arg.type \in {"array", "string"}

\* Array.isArray(texts), line 251.
IsArray(arg) == arg.type = "array"

\* Variant: a provider call that is repeated once.
CallProviderTwice(n) == n + 2

\* Line 220: one call of generateContent, counted.
CallProvider(n) == n + 1

NotArrayError == ToxBlockError("Texts must be an array", "INVALID_INPUT", NoCause)

\* ------------------------------------------------------------------- inputs

\* The arguments callers hand to checkText.
TextInputs ==
  {Null, Undefined, Num("42"), Num("0"), Str(<<>>),
   Str(<<" ">>), Str(<<" ", "\n", "\t">>),
   Str(<<"hello">>), Str(<<"you", " ", "fool">>),
   Str(<<"$", "&">>), Str(<<"cost", "$", "$">>), Str(<<"$", "'">>),
   Str(<<"$", Backtick>>), Str(<<"US", "$", "5">>), Str(<<Marker>>)}

\* The elements of the arrays handed to checkTexts.
BatchTexts == {Str(<<"hello">>), Str(<<" ">>), Null}

RECURSIVE SeqsUpTo(_, _)
SeqsUpTo(S, n) ==
  IF n = 0 THEN {<<>>}
  ELSE LET shorter == SeqsUpTo(S, n - 1) IN
       shorter \cup {Append(q, x) : q \in shorter, x \in S}

\* The arguments callers hand to checkTexts: arrays, and values that are none.
BatchInputs ==
  {[type |-> "array", items |-> q] : q \in SeqsUpTo(BatchTexts, MaxBatch)}
  \cup {[type |-> t, items |-> <<>>] : t \in {"null", "undefined", "string", "object"}}

JsonReply(members) == <<"{">> \o members \o <<"}">>

\* The replies of the test suite and of the spec's examples.
CleanReply ==
  JsonReply(<<"\"isProfane\"", ":", "false", ",", "\"confidence\"", ":", "0.9", ",",
              "\"language\"", ":", "\"en\"", ",", "\"details\"", ":", "\"clean\"">>)

HighConfidenceReply ==
  JsonReply(<<"\"isProfane\"", ":", "true", ",", "\"confidence\"", ":", "1.5", ",",
              "\"language\"", ":", "\"en\"">>)

LowConfidenceReply ==
  JsonReply(<<"\"isProfane\"", ":", "false", ",", "\"confidence\"", ":", "-0.5">>)

NoConfidenceReply ==
  JsonReply(<<"\"isProfane\"", ":", "false", ",", "\"language\"", ":", "\"en\"">>)

WrongTypesReply ==
  JsonReply(<<"\"isProfane\"", ":", "\"false\"", ",", "\"confidence\"", ":", "\"high\"", ",",
              "\"language\"", ":", "\"\"", ",", "\"details\"", ":", "null">>)

\* The object of the fenced reply of the test suite.
FencedObject ==
  JsonReply(<<"\"isProfane\"", ":", "false", ",", "\"confidence\"", ":", "0.8", ",",
              "\"language\"", ":", "\"en\"">>)

FencedReply == <<Fence, "json", "\n">> \o FencedObject \o <<"\n", Fence>>

\* An object in a json fence, in a plain fence, and in a json fence with
\* whitespace around it.
Wrappings(object) ==
  {<<Fence, "json", "\n">> \o object \o <<"\n", Fence>>,
   <<Fence, "\n">> \o object \o <<"\n", Fence>>,
   <<" ", Fence, "json", "\n">> \o object \o <<"\n", Fence, "\n">>}

\* The objects the provider wraps in fences.
WrappedObjects == {FencedObject, WrongTypesReply}

FencedReplies == UNION {Wrappings(object) : object \in WrappedObjects}

ToxicProseReply == <<"This", " ", "text", " ", "is", " ", "Toxic">>

\* Replies outside the test suite: confidences JSON.parse reads as infinite,
\* a trailing comma, prose without a keyword, prose with a keyword inside a
\* longer word or in capitals, bare JSON values, whitespace.
OtherReplyTexts ==
  {JsonReply(<<"\"isProfane\"", ":", "true", ",", "\"confidence\"", ":", "1e999">>),
   JsonReply(<<"\"confidence\"", ":", "-1e999">>),
   JsonReply(<<"\"isProfane\"", ":", "false", ",">>),
   <<"Looks", " ", "fine">>,
   <<"This", " ", "is", " ", "non-toxic">>,
   <<"Verdict:", " ", "TRUE">>,
   <<"null">>,
   <<"42">>,
   <<" ">>,
   <<"\n", " ">>}

\* Objects whose fields are absent or of types the result type does not
\* declare: an empty object, a numeric isProfane, a language that is 0, null
\* or a number, details that is a number.
EmptyObjectReply == <<"{", "}">>

ZeroLanguageReply ==
  JsonReply(<<"\"isProfane\"", ":", "1", ",", "\"language\"", ":", "0", ",",
              "\"details\"", ":", "42">>)

NullLanguageReply ==
  JsonReply(<<"\"isProfane\"", ":", "0", ",", "\"confidence\"", ":", "1", ",",
              "\"language\"", ":", "null">>)

NumericLanguageReply ==
  JsonReply(<<"\"isProfane\"", ":", "null", ",", "\"language\"", ":", "42">>)

FieldTypeReplies ==
  {EmptyObjectReply, ZeroLanguageReply, NullLanguageReply, NumericLanguageReply}

\* Replies that are valid JSON but no object: a boolean, a string, arrays,
\* and a null inside a fence.
BareValueReplies ==
  {<<"true">>, <<"\"true\"">>, <<"[", "]">>, <<"[", "true", ",", "0.9", "]">>,
   <<Fence, "json", "\n", "null", "\n", Fence>>}

\* The texts the provider replies with.
ReplyTexts ==
  {CleanReply, HighConfidenceReply, LowConfidenceReply, NoConfidenceReply,
   WrongTypesReply, FencedReply, ToxicProseReply}
  \cup OtherReplyTexts \cup FieldTypeReplies \cup FencedReplies
  \cup BareValueReplies

\* What the provider's promise fulfils with.
Replies ==
  {Response(Str(t)) : t \in ReplyTexts}
  \cup {Response(Str(<<>>)), Response(Undefined), NoResponse}

\* What the provider's promise rejects with.
Rejections == {Thrown("Error", "API Error"), Thrown("value", "quota exceeded")}

\* The settlements of the provider's promise explored during checkTexts: one
\* of each kind the loop can tell apart (a confidence above the range, one
\* below it, an unparsable reply, an empty one, a rejection).
BatchReplies ==
  {Response(Str(HighConfidenceReply)), Response(Str(LowConfidenceReply)),
   Response(Str(ToxicProseReply)), Response(Str(<<>>))}

BatchRejections == {Thrown("Error", "API Error")}

RepliesIn(m) == IF m = "batch" THEN BatchReplies ELSE Replies

RejectionsIn(m) == IF m = "batch" THEN BatchRejections ELSE Rejections

\* -------------------------------------------------------------------- state

VARIABLES
  instance, \* how the constructor ran: its argument, its error, its client
  config,   \* the instance's model, customPrompt and timeout
  got,      \* what the caller's last getConfig() returned
  mode,     \* "idle", or the public operation in progress: "single", "batch"
  texts,    \* checkTexts: its argument
  idx,      \* checkTexts: the position of the item the loop is at
  results,  \* checkTexts: its local array results
  cur,      \* "awaiting" while a checkText invocation awaits its race
  calls,    \* the provider calls not yet over, each with its timer and race
  ret,      \* how the last public operation settled
  used,     \* the number of checkText invocations the operations so far hold
  log,      \* history: the checkText invocations of the operation
  issued    \* history: the number of provider calls the operation issued

vars ==
  <<instance, config, got, mode, texts, idx, results, cur, calls, ret, used, log, issued>>

NoReturn ==
  [op |-> "none", status |-> "none", value |-> NoResult, values |-> <<>>,
   error |-> NoError]

\* The settlement of a checkText promise, seen by the caller of checkText.
ReturnOne(outcome) ==
  [op |-> "checkText", status |-> outcome.status, value |-> outcome.value,
   values |-> <<>>, error |-> outcome.error]

\* The settlement of a checkTexts promise.
ReturnMany(rs) ==
  [op |-> "checkTexts", status |-> "fulfilled", value |-> NoResult, values |-> rs,
   error |-> NoError]

ThrowMany(err) ==
  [op |-> "checkTexts", status |-> "rejected", value |-> NoResult, values |-> <<>>,
   error |-> err]

NoTexts == [type |-> "array", items |-> <<>>]

\* No constructor call yet.
NoInstance ==
  [status |-> "none", given |-> Undefined, error |-> NoError, client |-> Undefined]

Init ==
  /\ instance = NoInstance
  /\ config = NoConfig
  /\ got = NoConfigRead
  /\ mode = "idle"
  /\ texts = NoTexts
  /\ idx = 1
  /\ results = <<>>
  /\ cur = "none"
  /\ calls = <<>>
  /\ ret = NoReturn
  /\ used = 0
  /\ log = <<>>
  /\ issued = 0

\* Lines 213-225: the timer is started, the provider is called with the
\* prompt, and the two are raced.
NewCall ==
  [provider |-> "pending", timer |-> "pending", race |-> "pending",
   delay |-> config.timeout]

\* Variant: a race that never closes.
RaceAlwaysOpen(call) == TRUE

\* Variant: a race only the provider's settlement closes.
RaceOpenWhileProviderPending(call) == call.provider = "pending"

\* Promise.race (line 219) settles with the first of its two promises to
\* settle: a later settlement of the other finds the race closed.
RaceOpen(call) == call.race = "pending"

\* Variant: a timer that is never started.
TimerNeverStarted(call) == FALSE

\* Lines 214-216: the timer started by setTimeout has not expired yet.
TimerPending(call) == call.timer = "pending"

\* A call is over once its provider promise and its timer have both settled:
\* nothing can happen to it any more, and it leaves calls.
Over(call) == call.provider # "pending" /\ call.timer # "pending"

Compact(cs) == SelectSeq(cs, LAMBDA c : ~Over(c))

\* The provider promise of call k settles and wins the race, if it is open.
SettleProvider(cs, k) ==
  Compact([cs EXCEPT ![k] = [@ EXCEPT !.provider = "settled",
                                      !.race = IF @ = "pending" THEN "provider" ELSE @]])

\* The timer of call k expires and wins the race, if it is open.
SettleTimer(cs, k) ==
  Compact([cs EXCEPT ![k] = [@ EXCEPT !.timer = "fired",
                                      !.race = IF @ = "pending" THEN "timer" ELSE @]])

\* Line 211.
BuildPrompt(text) == ReplaceMarker(config.customPrompt, text.s)

\* Variant: checkTexts without the try/catch around its await, so that a
\* rejected checkText rejects checkTexts.
DeliverWithoutCatch(m, outcome) ==
  IF m = "batch" /\ outcome.status = "rejected"
  THEN /\ ret' = ThrowMany(outcome.error)
       /\ mode' = "idle"
       /\ UNCHANGED <<results, idx>>
  ELSE IF m = "batch"
  THEN /\ results' = Push(results, BatchEntry(outcome))
       /\ idx' = idx + 1
       /\ mode' = "batch"
       /\ ret' = NoReturn
  ELSE /\ ret' = ReturnOne(outcome)
       /\ mode' = "idle"
       /\ UNCHANGED <<results, idx>>

\* A settled checkText promise reaches the code awaiting it.  In operation m
\* that is the caller of checkText ("single"), or the loop of checkTexts
\* ("batch", lines 262-270), which pushes the item's entry and moves on.
Deliver(m, outcome) ==
  IF m = "batch"
  THEN /\ results' = Push(results, BatchEntry(outcome))
       /\ idx' = idx + 1
       /\ mode' = "batch"
       /\ ret' = NoReturn
  ELSE /\ ret' = ReturnOne(outcome)
       /\ mode' = "idle"
       /\ UNCHANGED <<results, idx>>

\* One checkText invocation in the history: its argument, whether it called
\* the provider and the prompt it sent, how its race settled, how it settled
\* and how many times.
LogEntry(text, called, prompt, outcome, settles) ==
  [text |-> text, called |-> called, prompt |-> prompt, settled |-> NotRaced,
   outcome |-> outcome, settles |-> settles]

\* checkText(text), lines 193-225, called in operation m whose history so far
\* is lg, with cs the calls not yet over and n the calls issued: it settles at
\* once for an invalid or a blank text, and otherwise starts the race and
\* awaits it.
Invoke(m, lg, cs, n, text) ==
  IF InvalidText(text)
  THEN /\ log' = Append(lg, LogEntry(text, FALSE, <<>>, Rejected(InvalidInputError), 1))
       /\ Deliver(m, Rejected(InvalidInputError))
       /\ calls' = cs
       /\ issued' = n
       /\ UNCHANGED cur
  ELSE IF BlankText(text)
  THEN /\ log' = Append(lg, LogEntry(text, FALSE, <<>>, Fulfilled(EmptyTextResult), 1))
       /\ Deliver(m, Fulfilled(EmptyTextResult))
       /\ calls' = cs
       /\ issued' = n
       /\ UNCHANGED cur
  ELSE /\ calls' = Append(cs, NewCall)
       /\ issued' = CallProvider(n)
       /\ cur' = "awaiting"
       /\ log' = Append(lg, LogEntry(text, TRUE, BuildPrompt(text), NoOutcome, 0))
       /\ mode' = m
       /\ ret' = NoReturn
       /\ UNCHANGED <<results, idx>>

\* new ToxBlock(raw), lines 164-176: an invalid apiKey throws before anything
\* is assigned; otherwise the provider client is created with the apiKey and
\* the three fields are set.
Constructor(raw) ==
  /\ instance.status = "none"
  /\ IF InvalidApiKey(raw.apiKey)
     THEN /\ instance' = [status |-> "failed", given |-> raw,
                          error |-> InvalidConfigError, client |-> Undefined]
          /\ UNCHANGED config
     ELSE /\ instance' = [status |-> "created", given |-> raw,
                          error |-> NoError, client |-> raw.apiKey]
          /\ config' = Construct(raw)
  /\ UNCHANGED <<got, mode, texts, idx, results, cur, calls, ret, used, log, issued>>

\* A caller calls getConfig() (lines 325-330), at any moment of the
\* instance's life.
CallGetConfig ==
  /\ instance.status = "created"
  /\ got' = GetConfig(config)
  /\ UNCHANGED <<instance, config, mode, texts, idx, results, cur, calls, ret,
                 used, log, issued>>

\* A caller calls checkText(text).
CallCheckText(text) ==
  /\ instance.status = "created"
  /\ mode = "idle"
  /\ used < MaxInvocations
  /\ used' = used + 1
  /\ texts' = NoTexts
  /\ Invoke("single", <<>>, calls, 0, text)
  /\ UNCHANGED <<instance, config, got>>

\* A caller calls checkTexts(arg), lines 250-258: an argument that is no array
\* is rejected; otherwise the loop starts with an empty results.
CallCheckTexts(arg) ==
  /\ instance.status = "created"
  /\ mode = "idle"
  /\ used + Len(arg.items) <= MaxInvocations
  /\ used' = used + Len(arg.items)
  /\ issued' = 0
  /\ log' = <<>>
  /\ texts' = arg
  /\ results' = <<>>
  /\ idx' = 1
  /\ IF ~IsArray(arg)
     THEN /\ ret' = ThrowMany(NotArrayError)
          /\ mode' = "idle"
     ELSE /\ ret' = NoReturn
          /\ mode' = "batch"
  /\ UNCHANGED <<instance, config, got, cur, calls>>

\* Variant: a loop that does not wait for the checkText it called.
LoopNeverWaits == TRUE

\* Line 263: the loop is suspended at its await until the checkText it called
\* has settled.
LoopResumed == cur = "none"

\* Lines 260-262: the loop takes the next item and calls checkText on it.
BatchItem ==
  /\ mode = "batch"
  /\ LoopResumed
  /\ idx <= Len(texts.items)
  /\ Invoke("batch", log, calls, issued, texts.items[idx])
  /\ UNCHANGED <<instance, config, got, texts, used>>

\* Line 273: the loop is over and checkTexts returns results.
BatchReturn ==
  /\ mode = "batch"
  /\ LoopResumed
  /\ idx > Len(texts.items)
  /\ ret' = ReturnMany(results)
  /\ mode' = "idle"
  /\ results' = <<>>
  /\ idx' = 1
  /\ UNCHANGED <<instance, config, got, texts, cur, calls, used, log, issued>>

\* A race settles, and the checkText awaiting it (the last invocation of the
\* history) runs on (lines 227-240) and settles.
Continue(settled) ==
  /\ log' = [j \in DOMAIN log |->
               IF j = Len(log)
               THEN [log[j] EXCEPT !.settled = settled,
                                   !.outcome = AfterRace(settled),
                                   !.settles = @ + 1]
               ELSE log[j]]
  /\ cur' = "none"
  /\ Deliver(mode, AfterRace(settled))

\* The provider's promise of call k fulfils with reply while its race is open.
ProviderFulfil(k, reply) ==
  /\ calls[k].provider = "pending"
  /\ RaceOpen(calls[k])
  /\ calls' = SettleProvider(calls, k)
  /\ Continue(RaceFulfilled(reply))
  /\ UNCHANGED <<instance, config, got, texts, used, issued>>

\* The provider's promise of call k rejects with reason while its race is open.
ProviderReject(k, reason) ==
  /\ calls[k].provider = "pending"
  /\ RaceOpen(calls[k])
  /\ calls' = SettleProvider(calls, k)
  /\ Continue(RaceRejected(reason))
  /\ UNCHANGED <<instance, config, got, texts, used, issued>>

\* Variant: a late reply handed to the checkText that is being awaited now.
ProviderLateReachesAwaited(k) ==
  /\ calls[k].provider = "pending"
  /\ ~RaceOpen(calls[k])
  /\ cur = "awaiting"
  /\ calls' = SelectSeq(SettleProvider(calls, k), LAMBDA c : c.race # "pending")
  /\ Continue(RaceFulfilled(Response(Str(HighConfidenceReply))))
  /\ UNCHANGED <<instance, config, got, texts, used, issued>>

\* The provider's promise of call k settles, either way, after its race was
\* closed by the timer: nothing awaits it.
ProviderLate(k) ==
  /\ calls[k].provider = "pending"
  /\ ~RaceOpen(calls[k])
  /\ calls' = SettleProvider(calls, k)
  /\ UNCHANGED <<instance, config, got, mode, texts, idx, results, cur, ret, used, log, issued>>

\* The timer of call k expires while its race is open (lines 214-216):
\* reject(new Error('Request timeout')).
TimerFire(k) ==
  /\ TimerPending(calls[k])
  /\ RaceOpen(calls[k])
  /\ calls' = SettleTimer(calls, k)
  /\ Continue(RaceRejected(TimeoutError))
  /\ UNCHANGED <<instance, config, got, texts, used, issued>>

\* The timer of call k expires after its race was closed by the provider: the
\* timer is never cleared, and its rejection reaches nothing.
TimerLate(k) ==
  /\ TimerPending(calls[k])
  /\ ~RaceOpen(calls[k])
  /\ calls' = SettleTimer(calls, k)
  /\ UNCHANGED <<instance, config, got, mode, texts, idx, results, cur, ret, used, log, issued>>

Next ==
  \/ \E raw \in RawConfigs : Constructor(raw)
  \/ CallGetConfig
  \/ \E text \in TextInputs : CallCheckText(text)
  \/ \E arg \in BatchInputs : CallCheckTexts(arg)
  \/ BatchItem
  \/ BatchReturn
  \/ \E k \in DOMAIN calls, reply \in RepliesIn(mode) : ProviderFulfil(k, reply)
  \/ \E k \in DOMAIN calls, reason \in RejectionsIn(mode) : ProviderReject(k, reason)
  \/ \E k \in DOMAIN calls : ProviderLate(k)
  \/ \E k \in DOMAIN calls : TimerFire(k)
  \/ \E k \in DOMAIN calls : TimerLate(k)

Spec == Init /\ [][Next]_vars

\* The scheduling the JavaScript runtime gives: a timer started by setTimeout
\* expires, and the loop of checkTexts runs on once the promise it awaits has
\* settled.  Nothing is assumed of the provider, whose promise may stay
\* pending for ever, nor of the callers, who may stop calling.
LiveSpec ==
  /\ Spec
  /\ WF_vars(\E k \in DOMAIN calls : TimerFire(k))
  /\ WF_vars(BatchItem)
  /\ WF_vars(BatchReturn)

\* ================================================================ properties

\* C1: every result checkText returns, and every entry of the array checkTexts
\* builds and returns (degraded entries included), has a confidence between 0
\* and 1, whatever the provider replied.
C1_ConfidenceInRange ==
  /\ (ret.op = "checkText" /\ ret.status = "fulfilled")
       => (0 <= ret.value.confidence /\ ret.value.confidence <= One)
  /\ \A i \in DOMAIN ret.values :
       0 <= ret.values[i].confidence /\ ret.values[i].confidence <= One
  /\ \A i \in DOMAIN results :
       0 <= results[i].confidence /\ results[i].confidence <= One

\* checkTexts returned two entries: one from a reply whose confidence is 1.5,
\* clamped to 1, and a degraded one.
C1_Witness ==
  /\ ret.op = "checkTexts"
  /\ ret.status = "fulfilled"
  /\ Len(ret.values) = 2
  /\ Len(log) = 2
  /\ log[1].settled = RaceFulfilled(Response(Str(HighConfidenceReply)))
  /\ ret.values[1].confidence = One
  /\ log[2].outcome.status = "rejected"
  /\ ret.values[2].confidence = 0

\* A settlement of checkText: one complete result, or one ToxBlockError whose
\* code is INVALID_INPUT or ANALYSIS_FAILED.
ProperSettlement(o) ==
  \/ /\ o.status = "fulfilled"
     /\ o.value # NoResult
     /\ o.value.isProfane \in BOOLEAN
     /\ o.value.confidence \in Int
     /\ o.error = NoError
  \/ /\ o.status = "rejected"
     /\ o.value = NoResult
     /\ o.error.name = "ToxBlockError"
     /\ o.error.code \in {"INVALID_INPUT", "ANALYSIS_FAILED"}

\* C2: every checkText invocation settles at most once, and once its operation
\* is over exactly once; each settlement is a complete result or a typed
\* error, and the caller of checkText receives just that settlement.
C2_SettlesExactlyOnce ==
  /\ \A j \in DOMAIN log :
       /\ log[j].settles <= 1
       /\ log[j].settles = 1 => ProperSettlement(log[j].outcome)
       /\ log[j].settles = 0 =>
            (log[j].outcome = NoOutcome /\ j = Len(log) /\ cur = "awaiting")
  /\ mode = "idle" => \A j \in DOMAIN log : log[j].settles = 1
  /\ ret.op = "checkText" =>
       /\ Len(log) = 1
       /\ ret.status = log[1].outcome.status
       /\ ret.value = log[1].outcome.value
       /\ ret.error = log[1].outcome.error
       /\ ret.status \in {"fulfilled", "rejected"}
  /\ (ret.op = "none" /\ mode = "single") => (Len(log) = 1 /\ log[1].settles = 0)

\* checkText failed on a reply that carries no text, and the timer expired
\* afterwards.
C2_Witness ==
  /\ ret.op = "checkText"
  /\ ret.status = "rejected"
  /\ log[1].settled = RaceFulfilled(Response(Undefined))
  /\ log[1].settles = 1
  /\ calls = <<>>

\* C3: the provider call and the timer are started together, and the first of
\* the two to settle decides: after a timer expiry checkText has failed with
\* ANALYSIS_FAILED (cause: the timeout) and stays so when the provider settles
\* later; after a provider settlement the outcome is derived from its reply or
\* rejection and stays so when the timer expires later.
C3_FirstSettlementDecides ==
  /\ (cur = "awaiting") <=> (\E k \in DOMAIN calls : calls[k].race = "pending")
  /\ \A k \in DOMAIN calls :
       calls[k].race = "pending" =>
         (calls[k].provider = "pending" /\ calls[k].timer = "pending")
  /\ \A j \in DOMAIN log :
       (log[j].called /\ log[j].settles >= 1) =>
          /\ log[j].settles = 1
          /\ log[j].settled.kind \in {"fulfilled", "rejected"}
          /\ log[j].settled = RaceRejected(TimeoutError) =>
               /\ log[j].outcome.status = "rejected"
               /\ log[j].outcome.error.code = "ANALYSIS_FAILED"
               /\ log[j].outcome.error.originalError = TimeoutError
          /\ (log[j].settled.kind = "rejected" /\ log[j].settled.reason # TimeoutError) =>
               /\ log[j].outcome.status = "rejected"
               /\ log[j].outcome.error.originalError.message = log[j].settled.reason.message
          /\ log[j].outcome.status = "fulfilled" =>
               /\ log[j].settled.kind = "fulfilled"
               /\ log[j].settled.reply.kind = "response"
               /\ log[j].outcome.value = parseResponse(log[j].settled.reply.text.s)
  /\ (ret.op = "checkText" /\ log[1].called) =>
       /\ log[1].settled = RaceRejected(TimeoutError) =>
            (ret.status = "rejected" /\ ret.error.originalError = TimeoutError)
       /\ log[1].settled.kind = "fulfilled" =>
            ret.error.originalError # TimeoutError

\* checkText failed on the timer's expiry, and the provider settled afterwards.
C3_Witness ==
  /\ ret.op = "checkText"
  /\ ret.status = "rejected"
  /\ ret.error.code = "ANALYSIS_FAILED"
  /\ log[1].called
  /\ log[1].settled = RaceRejected(TimeoutError)
  /\ calls = <<>>

\* A value that is no non-empty string: null, undefined, a number, "".
NotNonEmptyString(text) == text.type # "string" \/ text.s = <<>>

\* A non-empty string made of whitespace only.
WhitespaceOnly(text) ==
  /\ text.type = "string"
  /\ text.s # <<>>
  /\ \A i \in 1..Len(text.s) : text.s[i] \in Whitespace

\* What checkText produces for text on its own, given how its race settles.
CheckTextAlone(text, settled) ==
  IF NotNonEmptyString(text) THEN Rejected(InvalidInputError)
  ELSE IF WhitespaceOnly(text) THEN Fulfilled(EmptyTextResult)
  ELSE AfterRace(settled)

\* The entries checkTexts has pushed so far, or has returned.
Entries ==
  IF mode = "batch" THEN results
  ELSE IF ret.op = "checkTexts" THEN ret.values
  ELSE <<>>

\* C4: when checkText fails for item i of an array, position i holds the
\* degraded entry {isProfane: false, confidence: 0, details: "Error: <message>"},
\* the loop goes on, every other entry is what checkText alone produces for
\* its item, and checkTexts itself does not fail.
C4_PerItemIsolation ==
  /\ mode = "batch" =>
       (Len(results) = idx - 1 /\ idx <= Len(texts.items) + 1 /\ ret.op = "none")
  /\ (ret.op = "checkTexts" /\ texts.type = "array") => ret.status = "fulfilled"
  /\ \A j \in DOMAIN Entries :
       /\ j \in DOMAIN log
       /\ log[j].settles = 1
       /\ log[j].outcome = CheckTextAlone(log[j].text, log[j].settled)
       /\ log[j].outcome.status = "rejected" =>
            /\ Entries[j] = [isProfane |-> FALSE, confidence |-> 0,
                             language |-> Undefined,
                             details |-> Str(<<"Error: ", log[j].outcome.error.message>>)]
            /\ log[j].outcome.error.message
                 \in {"Failed to analyze text", "Text must be a non-empty string"}
       /\ log[j].outcome.status = "fulfilled" => Entries[j] = log[j].outcome.value

\* checkTexts returned two entries: the first item timed out and holds the
\* degraded entry, the second holds the result of its own reply.
C4_Witness ==
  /\ ret.op = "checkTexts"
  /\ ret.status = "fulfilled"
  /\ Len(ret.values) = 2
  /\ Len(log) = 2
  /\ log[1].settled = RaceRejected(TimeoutError)
  /\ ret.values[1].details = Str(<<"Error: ", "Failed to analyze text">>)
  /\ log[2].settled = RaceFulfilled(Response(Str(HighConfidenceReply)))
  /\ ret.values[2].isProfane

\* Entry e is the entry of text, whose invocation in the history is h.
EntryOf(text, e, h) ==
  /\ h.text = text
  /\ IF NotNonEmptyString(text)
     THEN e = [isProfane |-> FALSE, confidence |-> 0, language |-> Undefined,
               details |-> Str(<<"Error: ", "Text must be a non-empty string">>)]
     ELSE IF WhitespaceOnly(text)
     THEN e = [isProfane |-> FALSE, confidence |-> One,
               language |-> Str(<<"unknown">>), details |-> Str(<<"Empty text">>)]
     ELSE /\ h.called
          /\ IF h.outcome.status = "fulfilled"
             THEN e = h.outcome.value
             ELSE e = [isProfane |-> FALSE, confidence |-> 0, language |-> Undefined,
                       details |-> Str(<<"Error: ", "Failed to analyze text">>)]

\* C5: for an array, checkTexts returns an array of the same length whose
\* entry at position i is the entry of the text at position i; while the loop
\* runs, the entries pushed so far are those of the first items, in order.
C5_SameLengthAndOrder ==
  /\ mode = "batch" =>
       /\ Len(results) <= Len(texts.items)
       /\ Len(results) <= Len(log)
       /\ \A i \in DOMAIN results : EntryOf(texts.items[i], results[i], log[i])
  /\ (ret.op = "checkTexts" /\ ret.status = "fulfilled") =>
       /\ Len(ret.values) = Len(texts.items)
       /\ Len(log) = Len(texts.items)
       /\ \A i \in DOMAIN ret.values : EntryOf(texts.items[i], ret.values[i], log[i])

\* checkTexts returned for a blank text followed by a text the provider
\* judged profane: the fixed clean entry first, the provider's verdict second.
C5_Witness ==
  /\ ret.op = "checkTexts"
  /\ ret.status = "fulfilled"
  /\ texts.items = <<Str(<<" ">>), Str(<<"hello">>)>>
  /\ ret.values[1].details = Str(<<"Empty text">>)
  /\ ret.values[2].isProfane
  /\ ret.values[2].language = Str(<<"en">>)

\* The race settled in a way that makes the request/response cycle fail: a
\* rejection (provider or timer), no response object, or a response whose
\* text is absent or empty.
CycleFailed(settled) ==
  \/ settled.kind = "rejected"
  \/ settled.reply.kind = "undefined"
  \/ settled.reply.text = Undefined
  \/ settled.reply.text = Str(<<>>)

\* C6: a failure of the request/response cycle is reported as a ToxBlockError
\* with code ANALYSIS_FAILED and the fixed message 'Failed to analyze text',
\* never the provider's message, and with the original condition as
\* originalError: the rejection itself when it is an Error (an Error carrying
\* its string form when it is not), the timeout error, the empty-response
\* error, or the TypeError of reading a missing response.
C6_AnalysisFailedKeepsCause ==
  /\ \A j \in DOMAIN log :
       (log[j].called /\ log[j].settles >= 1) =>
         LET o == log[j].outcome
             st == log[j].settled
         IN /\ CycleFailed(st) <=> o.status = "rejected"
            /\ o.status = "rejected" =>
                 /\ o.error.name = "ToxBlockError"
                 /\ o.error.code = "ANALYSIS_FAILED"
                 /\ o.error.message = "Failed to analyze text"
                 /\ o.error.originalError.kind \in {"Error", "TypeError"}
                 /\ st.kind = "rejected" =>
                      /\ o.error.message # st.reason.message
                      /\ o.error.originalError.message = st.reason.message
                      /\ st.reason.kind # "value" => o.error.originalError = st.reason
                 /\ (st.kind = "fulfilled" /\ st.reply.kind = "response") =>
                      o.error.originalError = Thrown("Error", "Empty response from AI model")
                 /\ (st.kind = "fulfilled" /\ st.reply.kind = "undefined") =>
                      o.error.originalError.kind = "TypeError"
  /\ (ret.op = "checkText" /\ ret.status = "rejected" /\ log[1].called) =>
       /\ ret.error.code = "ANALYSIS_FAILED"
       /\ ret.error.message = "Failed to analyze text"
       /\ ret.error.originalError = log[1].outcome.error.originalError

\* checkText failed because the provider rejected with Error('API Error').
C6_Witness ==
  /\ ret.op = "checkText"
  /\ ret.status = "rejected"
  /\ log[1].settled = RaceRejected(Thrown("Error", "API Error"))
  /\ ret.error.originalError = Thrown("Error", "API Error")
  /\ ret.error.message = "Failed to analyze text"

\* The invocations of the history that built a prompt and went to the provider.
CalledInvocations == {j \in DOMAIN log : log[j].called}

\* The provider calls whose race is still undecided.
OpenRaces == {k \in DOMAIN calls : calls[k].race = "pending"}

\* C7: checkText on a value that is not a string, or on the empty string,
\* rejects with a ToxBlockError of code INVALID_INPUT, and that invocation
\* builds no prompt, sends no provider request and starts no timer: the
\* requests issued are exactly those of the other invocations, and the only
\* race ever open is that of the invocation being awaited.
C7_InvalidInputBeforeIO ==
  /\ \A j \in DOMAIN log :
       NotNonEmptyString(log[j].text) =>
         /\ log[j].outcome.status = "rejected"
         /\ log[j].outcome.error.name = "ToxBlockError"
         /\ log[j].outcome.error.code = "INVALID_INPUT"
         /\ ~log[j].called
         /\ log[j].prompt = <<>>
         /\ log[j].settled = NotRaced
  /\ issued = Cardinality(CalledInvocations)
  /\ Cardinality(OpenRaces) = IF cur = "awaiting" THEN 1 ELSE 0
  /\ cur = "awaiting" => (log # <<>> /\ ~NotNonEmptyString(log[Len(log)].text))
  /\ (ret.op = "checkText" /\ NotNonEmptyString(log[1].text)) =>
       /\ ret.status = "rejected"
       /\ ret.error.code = "INVALID_INPUT"
       /\ issued = 0

\* checkText(42) was rejected with INVALID_INPUT and nothing was issued.
C7_Witness ==
  /\ ret.op = "checkText"
  /\ log[1].text = Num("42")
  /\ ret.status = "rejected"
  /\ ret.error.code = "INVALID_INPUT"
  /\ issued = 0

\* C8: checkText on a non-empty string of whitespace only fulfils with
\* {isProfane: false, confidence: 1.0, language: 'unknown', details: 'Empty
\* text'}, without building a prompt or calling the provider.
C8_BlankTextIsClean ==
  /\ \A j \in DOMAIN log :
       WhitespaceOnly(log[j].text) =>
         /\ log[j].outcome =
              [status |-> "fulfilled",
               value |-> [isProfane |-> FALSE, confidence |-> One,
                          language |-> Str(<<"unknown">>),
                          details |-> Str(<<"Empty text">>)],
               error |-> NoError]
         /\ ~log[j].called
         /\ log[j].prompt = <<>>
         /\ log[j].settled = NotRaced
  /\ (ret.op = "checkText" /\ WhitespaceOnly(log[1].text)) =>
       /\ ret.status = "fulfilled"
       /\ ret.value = [isProfane |-> FALSE, confidence |-> One,
                       language |-> Str(<<"unknown">>),
                       details |-> Str(<<"Empty text">>)]
       /\ issued = 0

\* checkText(" \n\t") fulfilled with the clean result and nothing was issued.
C8_Witness ==
  /\ ret.op = "checkText"
  /\ log[1].text = Str(<<" ", "\n", "\t">>)
  /\ ret.status = "fulfilled"
  /\ ret.value.details = Str(<<"Empty text">>)
  /\ issued = 0

\* The race was won by a provider response object.
GotResponse(h) ==
  /\ h.called
  /\ h.settles >= 1
  /\ h.settled.kind = "fulfilled"
  /\ h.settled.reply.kind = "response"

\* C9 as stated: a provider response whose text is empty or whitespace-only
\* is a failure with code ANALYSIS_FAILED.
C9_BlankResponseFails ==
  \A j \in DOMAIN log :
    (/\ GotResponse(log[j])
     /\ log[j].settled.reply.text.type = "string"
     /\ \A i \in 1..Len(log[j].settled.reply.text.s) :
          log[j].settled.reply.text.s[i] \in Whitespace) =>
      /\ log[j].outcome.status = "rejected"
      /\ log[j].outcome.error.code = "ANALYSIS_FAILED"

\* C9: a provider response whose text is absent or the empty string fails
\* with code ANALYSIS_FAILED, caused by 'Empty response from AI model', and
\* no result is derived from it; a response text that is non-empty but
\* whitespace-only is not a failure: it is normalized, and yields the fallback
\* result {isProfane: false, confidence: 0.5, language: 'unknown', details:
\* 'Fallback parsing used'}.
C9_EmptyResponseFails ==
  \A j \in DOMAIN log :
    GotResponse(log[j]) =>
      LET t == log[j].settled.reply.text
          o == log[j].outcome
      IN /\ (t = Undefined \/ t = Str(<<>>)) =>
              /\ o.status = "rejected"
              /\ o.value = NoResult
              /\ o.error.name = "ToxBlockError"
              /\ o.error.code = "ANALYSIS_FAILED"
              /\ o.error.originalError = Thrown("Error", "Empty response from AI model")
         /\ WhitespaceOnly(t) =>
              /\ o.status = "fulfilled"
              /\ o.value = [isProfane |-> FALSE, confidence |-> Half,
                            language |-> Str(<<"unknown">>),
                            details |-> Str(<<"Fallback parsing used">>)]

\* checkText failed with ANALYSIS_FAILED on a response whose text is ''.
C9_Witness ==
  /\ ret.op = "checkText"
  /\ log[1].settled = RaceFulfilled(Response(Str(<<>>)))
  /\ ret.status = "rejected"
  /\ ret.error.code = "ANALYSIS_FAILED"
  /\ ret.error.originalError.message = "Empty response from AI model"

\* The template with the first occurrence of the marker replaced by text,
\* taken literally; the template itself when it has no marker.
LiteralSubstitution(template, text) ==
  LET p == IndexOf(template, Marker)
  IN IF p = 0 THEN template
     ELSE SubSeq(template, 1, p - 1) \o text \o SubSeq(template, p + 1, Len(template))

\* C10: the prompt sent to the provider is the configured template with the
\* first occurrence of {TEXT} replaced by the input text, the text being
\* inserted as it is; later occurrences stay, and a template without the
\* marker is sent unchanged.
C10_PromptIsLiteralSubstitution ==
  \A j \in DOMAIN log :
    log[j].called =>
      log[j].prompt = LiteralSubstitution(config.customPrompt, log[j].text.s)

\* C11: the effective timeout is the configured one when it is greater than
\* zero and the default 10000 otherwise (unset, zero or negative), so that
\* neither getConfig().timeout nor the delay of a race timer is ever
\* non-positive.
C11_TimeoutPositiveOrDefault ==
  instance.status = "created" =>
    /\ config.timeout =
         (IF /\ instance.given.timeout.type = "number"
             /\ Millis(instance.given.timeout.s[1]) > 0
          THEN Millis(instance.given.timeout.s[1])
          ELSE 10000)
    /\ config.timeout > 0
    /\ got # NoConfigRead => got.timeout > 0
    /\ \A k \in DOMAIN calls : calls[k].delay > 0

\* The race of invocation h was won by a response whose text, fences and
\* surrounding whitespace removed, is a JSON object.
GotObject(h) ==
  /\ GotResponse(h)
  /\ h.settled.reply.text.type = "string"
  /\ h.settled.reply.text.s # <<>>
  /\ JSONParse(CleanResponse(h.settled.reply.text.s)).ok
  /\ JSONParse(CleanResponse(h.settled.reply.text.s)).val.type = "object"

\* The fields of the object invocation h was answered with.
FieldsOf(h) == JSONParse(CleanResponse(h.settled.reply.text.s)).obj

\* The first three fields of a structured result: isProfane is the truthy
\* coercion of its field, confidence the numeric field clamped to [0, 1] and
\* 0.5 for any other field, details the field itself.
CoercedFields(r, f) ==
  /\ r.isProfane = (f.isProfane \notin {Undefined, Null, Bool("false"), Num("0"), Str(<<>>)})
  /\ r.confidence =
       (IF f.confidence.type # "number" THEN Half
        ELSE IF NumVal(f.confidence.s[1]) < 0 THEN 0
        ELSE IF NumVal(f.confidence.s[1]) > One THEN One
        ELSE NumVal(f.confidence.s[1]))
  /\ r.details = f.details

\* C12 as stated: for a reply that parses as an object the result is computed
\* field by field, and language is the field, or "unknown" when the field is
\* absent or the empty string.
C12_LanguageUnlessAbsentOrEmpty ==
  \A j \in DOMAIN log :
    GotObject(log[j]) =>
      /\ log[j].outcome.status = "fulfilled"
      /\ CoercedFields(log[j].outcome.value, FieldsOf(log[j]))
      /\ log[j].outcome.value.language =
           (IF FieldsOf(log[j]).language \in {Undefined, Str(<<>>)}
            THEN Str(<<"unknown">>)
            ELSE FieldsOf(log[j]).language)

\* C12: for a reply that parses as an object the result is computed field by
\* field: isProfane is the truthy coercion of the field (absent gives false, a
\* non-empty string such as "false" gives true); confidence is the field
\* clamped to [0, 1] when it is a number and 0.5 otherwise; language is the
\* field when it is truthy and "unknown" when it is absent or falsy (the empty
\* string, null, false, 0); details is the field, possibly undefined.
C12_FieldByField ==
  \A j \in DOMAIN log :
    GotObject(log[j]) =>
      /\ log[j].outcome.status = "fulfilled"
      /\ CoercedFields(log[j].outcome.value, FieldsOf(log[j]))
      /\ log[j].outcome.value.language =
           (IF FieldsOf(log[j]).language
                 \in {Undefined, Null, Bool("false"), Num("0"), Str(<<>>)}
            THEN Str(<<"unknown">>)
            ELSE FieldsOf(log[j]).language)

\* checkText returned the result of the object whose isProfane is the string
\* "false", whose confidence is a string, whose language is empty and whose
\* details is null.
C12_Witness ==
  /\ ret.op = "checkText"
  /\ ret.status = "fulfilled"
  /\ log[1].settled = RaceFulfilled(Response(Str(WrongTypesReply)))
  /\ ret.value = [isProfane |-> TRUE, confidence |-> Half,
                  language |-> Str(<<"unknown">>), details |-> Null]

\* The race of invocation h was won by a non-empty response text that
\* JSON.parse rejects, fences and surrounding whitespace removed.
GotUnparsable(h) ==
  /\ GotResponse(h)
  /\ h.settled.reply.text.type = "string"
  /\ h.settled.reply.text.s # <<>>
  /\ ~JSONParse(CleanResponse(h.settled.reply.text.s)).ok

\* The tokens of the model that hold one of the four keywords, whatever
\* their case.
KeywordTokens ==
  {"true", "TRUE", "\"true\"", "profane", "\"isProfane\"", "toxic", "Toxic",
   "non-toxic", "inappropriate"}

\* C13: a reply that cannot be parsed gives exactly {isProfane: b,
\* confidence: 0.5, language: "unknown", details: "Fallback parsing used"},
\* where b holds if and only if the raw reply contains, in any case, one of
\* "true", "profane", "toxic", "inappropriate".
C13_FallbackByKeywords ==
  \A j \in DOMAIN log :
    GotUnparsable(log[j]) =>
      LET raw == log[j].settled.reply.text.s IN
      /\ log[j].outcome.status = "fulfilled"
      /\ log[j].outcome.value =
           [isProfane |-> \E i \in 1..Len(raw) : raw[i] \in KeywordTokens,
            confidence |-> Half,
            language |-> Str(<<"unknown">>),
            details |-> Str(<<"Fallback parsing used">>)]

\* checkText returned the fallback result with isProfane true for the prose
\* reply 'This text is Toxic'.
C13_Witness ==
  /\ ret.op = "checkText"
  /\ ret.status = "fulfilled"
  /\ log[1].settled = RaceFulfilled(Response(Str(ToxicProseReply)))
  /\ ret.value.isProfane
  /\ ret.value.details = Str(<<"Fallback parsing used">>)

\* C14: a well-formed object wrapped in Markdown code fences (with or
\* without the word json) and surrounding whitespace gives the result of the
\* bare object, computed by the structured path and not by the fallback path.
C14_FencedAsBare ==
  \A j \in DOMAIN log :
    \A object \in WrappedObjects :
      (/\ GotResponse(log[j])
       /\ log[j].settled.reply.text.type = "string"
       /\ log[j].settled.reply.text.s \in Wrappings(object)) =>
        /\ log[j].outcome.status = "fulfilled"
        /\ log[j].outcome.value = StructuredResult(JSONParse(object))
        /\ log[j].outcome.value.details # Str(<<"Fallback parsing used">>)
        /\ object = FencedObject =>
             log[j].outcome.value =
               [isProfane |-> FALSE, confidence |-> 8,
                language |-> Str(<<"en">>), details |-> Undefined]

\* checkText returned the structured result of an object that came in a
\* plain fence.
C14_Witness ==
  /\ ret.op = "checkText"
  /\ ret.status = "fulfilled"
  /\ log[1].settled =
       RaceFulfilled(Response(Str(<<Fence, "\n">> \o FencedObject \o <<"\n", Fence>>)))
  /\ ret.value.confidence = 8
  /\ ret.value.language = Str(<<"en">>)

\* C15: checkTexts on an argument that is no array (null, undefined, a
\* string, an object) rejects with a ToxBlockError of code INVALID_INPUT, and
\* no item is processed and no provider call issued on its behalf.
C15_NotAnArray ==
  (ret.op = "checkTexts" /\ texts.type # "array") =>
    /\ ret.status = "rejected"
    /\ ret.error.name = "ToxBlockError"
    /\ ret.error.code = "INVALID_INPUT"
    /\ ret.values = <<>>
    /\ mode = "idle"
    /\ cur = "none"
    /\ log = <<>>
    /\ results = <<>>
    /\ issued = 0
    /\ OpenRaces = {}

\* checkTexts('not an array') was rejected with INVALID_INPUT 'Texts must be
\* an array'.
C15_Witness ==
  /\ ret.op = "checkTexts"
  /\ texts.type = "string"
  /\ ret.status = "rejected"
  /\ ret.error.code = "INVALID_INPUT"
  /\ ret.error.message = "Texts must be an array"
  /\ issued = 0

\* A string with at least one character that is no whitespace.
RealText(text) ==
  /\ text.type = "string"
  /\ \E i \in 1..Len(text.s) : text.s[i] \notin Whitespace

\* The number of the first n elements of items that are real texts.
RealTexts(items, n) == Cardinality({i \in 1..n : RealText(items[i])})

\* C16: a checkText call issues exactly one provider call when its text is a
\* string with a non-whitespace character, whatever becomes of that call (no
\* retry), and none otherwise; checkTexts has issued one call per such
\* element among those it has reached, hence as many as its input has when it
\* returns, and checkTexts([]) returns [] without any.
C16_OneProviderCallPerRealText ==
  /\ \A j \in DOMAIN log : log[j].called <=> RealText(log[j].text)
  /\ (mode = "single" \/ ret.op = "checkText") =>
       /\ Len(log) = 1
       /\ issued = IF RealText(log[1].text) THEN 1 ELSE 0
  /\ mode = "batch" =>
       /\ Len(log) <= Len(texts.items)
       /\ issued = RealTexts(texts.items, Len(log))
  /\ (ret.op = "checkTexts" /\ ret.status = "fulfilled") =>
       /\ issued = RealTexts(texts.items, Len(texts.items))
       /\ texts.items = <<>> => ret.values = <<>>
  /\ (ret.op = "checkTexts" /\ ret.status = "rejected") => issued = 0

\* checkTexts returned for [hello, blank]: two elements,
\* of which the first is a real text whose call the provider rejected; one
\* call was issued, and none for the blank element.
C16_Witness ==
  /\ ret.op = "checkTexts"
  /\ ret.status = "fulfilled"
  /\ texts.items = <<Str(<<"hello">>), Str(<<" ">>)>>
  /\ log[1].settled = RaceRejected(Thrown("Error", "API Error"))
  /\ issued = 1

\* C17: new ToxBlock(config) throws a ToxBlockError of code INVALID_CONFIG
\* when apiKey is absent, null, empty or no string, and then no field is set,
\* no provider client is created and no operation ever runs; with a non-empty
\* string apiKey it succeeds and creates the client with that key.
C17_ApiKeyRequired ==
  instance.status # "none" =>
    IF instance.given.apiKey.type # "string" \/ instance.given.apiKey.s = <<>>
    THEN /\ instance.status = "failed"
         /\ instance.error.name = "ToxBlockError"
         /\ instance.error.code = "INVALID_CONFIG"
         /\ instance.client = Undefined
         /\ config = NoConfig
         /\ got = NoConfigRead
         /\ used = 0
         /\ ret = NoReturn
         /\ calls = <<>>
    ELSE /\ instance.status = "created"
         /\ instance.error = NoError
         /\ instance.client = instance.given.apiKey

\* new ToxBlock({apiKey: 42}) threw INVALID_CONFIG.
C17_Witness ==
  /\ instance.status = "failed"
  /\ instance.given.apiKey = Num("42")
  /\ instance.error.code = "INVALID_CONFIG"
  /\ instance.error.message = "API key is required and must be a string"

\* The object getConfig returns for the configuration the constructor was
\* given: its model and its timeout, each replaced by the default when falsy.
ConfigAtConstruction ==
  [model |-> IF instance.given.model \in {Undefined, Str(<<>>)}
             THEN <<"gemini-2.0-flash-001">>
             ELSE instance.given.model.s,
   timeout |-> IF instance.given.timeout \in {Undefined, Num("0")}
               THEN 10000
               ELSE Millis(instance.given.timeout.s[1])]

\* C18: getConfig returns the model and the timeout fixed at construction and
\* nothing else (no apiKey); the call changes nothing but what the caller
\* holds; and the instance's fields are the same after any sequence of
\* checkText and checkTexts calls, however they ended.
C18_GetConfigReadOnly ==
  /\ [](instance.status = "created" =>
          /\ got \in {NoConfigRead, ConfigAtConstruction}
          /\ DOMAIN got = {"model", "timeout"}
          /\ config.model = ConfigAtConstruction.model
          /\ config.timeout = ConfigAtConstruction.timeout
          /\ instance.client = instance.given.apiKey)
  /\ [][/\ instance.status = "created" => (config' = config /\ instance' = instance)
        /\ got' # got =>
             UNCHANGED <<instance, config, mode, texts, idx, results, cur, calls,
                         ret, used, log, issued>>]_vars

\* getConfig() returned {model: 'custom-model', timeout: 5000} after a
\* checkText call that timed out.
C18_Witness ==
  /\ got = [model |-> <<"custom-model">>, timeout |-> 5000]
  /\ ret.op = "checkText"
  /\ ret.status = "rejected"
  /\ ret.error.originalError = TimeoutError

\* C19: a checkText call that awaits its race eventually settles, even if
\* the provider's promise never does (the timer then decides the race), and
\* so every public operation in progress, checkTexts on any array included,
\* eventually returns or fails.
C19_EventuallySettles ==
  /\ (cur = "awaiting") ~> (cur = "none")
  /\ (mode # "idle") ~> (mode = "idle" /\ ret.op # "none")

\* checkText failed on the timer while the provider's promise of that call
\* was still pending.
C19_Witness ==
  /\ ret.op = "checkText"
  /\ ret.status = "rejected"
  /\ ret.error.originalError = TimeoutError
  /\ log[1].settled = RaceRejected(TimeoutError)
  /\ \E k \in DOMAIN calls : calls[k].provider = "pending" /\ calls[k].race = "timer"

\* C20: checkTexts takes its items in input order, one at a time: the
\* checkText of an item (and its provider call) is started only when those of
\* all earlier items have settled and their entries have been pushed, so that
\* at most one item is in progress and at most one race is open.
C20_OneItemAtATime ==
  /\ [](mode = "batch" =>
          /\ idx = Len(results) + 1
          /\ Len(log) = IF cur = "awaiting" THEN Len(results) + 1 ELSE Len(results)
          /\ Len(log) <= Len(texts.items)
          /\ \A j \in DOMAIN log :
               /\ log[j].text = texts.items[j]
               /\ log[j].settles = IF j = Len(log) /\ cur = "awaiting" THEN 0 ELSE 1
          /\ Cardinality(OpenRaces) = IF cur = "awaiting" THEN 1 ELSE 0)
  /\ [][(mode = "batch" /\ Len(log') > Len(log)) =>
          /\ Len(log') = Len(log) + 1
          /\ Len(results) = Len(log)
          /\ \A j \in DOMAIN log : log[j].settles = 1 /\ log'[j] = log[j]
          /\ OpenRaces = {}
          /\ log'[Len(log')].text = texts.items[Len(log) + 1]]_vars

\* The loop awaits the checkText of the second item, after the first item
\* was answered by the provider and its entry pushed.
C20_Witness ==
  /\ mode = "batch"
  /\ cur = "awaiting"
  /\ Len(results) = 1
  /\ Len(log) = 2
  /\ log[1].called
  /\ log[1].settled.kind = "fulfilled"
  /\ log[2].called
  /\ log[2].settles = 0

\* The race of invocation h was won by a non-empty response text.
GotText(h) ==
  /\ GotResponse(h)
  /\ h.settled.reply.text.type = "string"
  /\ h.settled.reply.text.s # <<>>

\* What JSON.parse makes of the text invocation h was answered with, fences
\* and surrounding whitespace removed.
ParsedOf(h) == JSONParse(CleanResponse(h.settled.reply.text.s))

\* C21 as stated: every reply that is valid JSON, a bare null included, is
\* handled by the structured path: details is the reply's own details field
\* (undefined for a value that is no object), never the fallback's text
\* unless the reply carries it.
C21_ValidJsonIsStructured ==
  \A j \in DOMAIN log :
    (GotText(log[j]) /\ ParsedOf(log[j]).ok) =>
      /\ log[j].outcome.status = "fulfilled"
      /\ log[j].outcome.value.details = ParsedOf(log[j]).obj.details

\* C21: the fallback path is taken when the fence-stripped reply is not valid
\* JSON and also when it is the JSON value null; every other valid reply (an
\* object, a bare boolean, number, string or array) is handled by the
\* structured path, so that its details is the reply's own details field and
\* a bare value gives {isProfane: false, confidence: 0.5, language:
\* "unknown"} without details.
C21_FallbackOnlyForInvalidOrNull ==
  \A j \in DOMAIN log :
    GotText(log[j]) =>
      LET parsed == ParsedOf(log[j])
          value == log[j].outcome.value
      IN /\ log[j].outcome.status = "fulfilled"
         /\ (parsed.ok /\ parsed.val # Null) =>
              /\ value.details = parsed.obj.details
              /\ parsed.val.type # "object" =>
                   value = [isProfane |-> FALSE, confidence |-> Half,
                            language |-> Str(<<"unknown">>), details |-> Undefined]
         /\ (~parsed.ok \/ parsed.val = Null) =>
              /\ value.details = Str(<<"Fallback parsing used">>)
              /\ value.confidence = Half
              /\ value.language = Str(<<"unknown">>)

\* checkText returned the fallback result for the reply null.
C21_Witness ==
  /\ ret.op = "checkText"
  /\ ret.status = "fulfilled"
  /\ log[1].settled = RaceFulfilled(Response(Str(<<"null">>)))
  /\ ret.value = [isProfane |-> FALSE, confidence |-> Half,
                  language |-> Str(<<"unknown">>),
                  details |-> Str(<<"Fallback parsing used">>)]

\* The provider calls that were started and have not settled yet.
OutstandingCalls == {k \in DOMAIN calls : calls[k].provider = "pending"}

\* C22: during a checkTexts call at most one provider call is outstanding at
\* any moment, also after items that timed out.  Stated for a checkTexts that
\* holds every checkText invocation made on the instance so far, so that each
\* outstanding call is one of its own.
C22_OneOutstandingCall ==
  (mode = "batch" /\ used = Len(texts.items)) => Cardinality(OutstandingCalls) <= 1

\* The provider calls whose checkText has timed out and which have not
\* settled yet.
StaleCalls == {k \in DOMAIN calls : calls[k].provider = "pending" /\ calls[k].race = "timer"}

\* C23: a provider reply or rejection that arrives after its checkText has
\* timed out changes nothing but the fact that the call is over: no result,
\* no entry of a checkTexts output, no outcome of a later item or call.  An
\* invocation that has settled keeps its outcome, an entry that was pushed
\* stays as it is, every outcome is what checkText makes of its own text and
\* of the settlement of its own race, and a timed-out invocation stays failed
\* with the timeout as its cause.
C23_LateReplyDiscarded ==
  /\ [](\A j \in DOMAIN log :
          log[j].settles >= 1 =>
            /\ log[j].settles = 1
            /\ log[j].outcome = CheckTextAlone(log[j].text, log[j].settled)
            /\ log[j].settled = RaceRejected(TimeoutError) =>
                 /\ log[j].outcome.status = "rejected"
                 /\ log[j].outcome.error.originalError = TimeoutError)
  /\ [][/\ Cardinality(StaleCalls') < Cardinality(StaleCalls) =>
             UNCHANGED <<instance, config, got, mode, texts, idx, results, cur,
                         ret, used, log, issued>>
        /\ (used' = used /\ log' # <<>>) =>
             \A j \in DOMAIN log : log[j].settles = 1 => log'[j] = log[j]
        /\ (mode = "batch" /\ mode' = "batch") =>
             \A i \in DOMAIN results : i \in DOMAIN results' /\ results'[i] = results[i]
        /\ (mode = "batch" /\ mode' = "idle") => ret'.values = results]_vars

\* checkTexts returned two entries: the first item timed out and its
\* provider call is over by now, having settled late; the second item was
\* answered by its own call, with a reply that parses.
C23_Witness ==
  /\ ret.op = "checkTexts"
  /\ ret.status = "fulfilled"
  /\ Len(log) = 2
  /\ log[1].settled = RaceRejected(TimeoutError)
  /\ ret.values[1].details = Str(<<"Error: ", "Failed to analyze text">>)
  /\ log[2].settled = RaceFulfilled(Response(Str(LowConfidenceReply)))
  /\ ret.values[2].confidence = 0
  /\ StaleCalls = {}
  /\ used = 2

\* C24: every result handed to a caller, by checkText and at every position
\* of the array checkTexts returns, degraded entries included, has a language
\* field that is a non-empty string.
C24_LanguageIsString ==
  /\ (ret.op = "checkText" /\ ret.status = "fulfilled") =>
       (ret.value.language.type = "string" /\ ret.value.language.s # <<>>)
  /\ (ret.op = "checkTexts" /\ ret.status = "fulfilled") =>
       \A i \in DOMAIN ret.values :
         /\ ret.values[i].language.type = "string"
         /\ ret.values[i].language.s # <<>>

====
